---- MODULE Spec2Model ----
(***************************************************************************)
(* Model of clippy_lints/src/missing_doc.rs: the MissingDoc late lint pass *)
(* (MISSING_DOCS_IN_PRIVATE_ITEMS).  The pass keeps a stack of booleans    *)
(* (doc_hidden_stack) that the lint driver pushes and pops around every    *)
(* node that has lint attributes, and a set of check_* callbacks that      *)
(* report a node without a `#[doc = "..."]` attribute.                     *)
(*                                                                         *)
(* The driver that calls the callbacks (enter_lint_attrs, check_*, walk    *)
(* the children, exit_lint_attrs) is the host compiler's late lint         *)
(* visitor; its calling order is taken from the written specification.    *)
(***************************************************************************)
EXTENDS Naturals, Sequences, FiniteSets, TLC

(* Bounds of the explored input trees. *)
MaxNodes == 2   \* nodes below the crate root
MaxRuns  == 2   \* traversal runs of one visitor

VARIABLES
    doc_hidden_stack,  \* MissingDoc.doc_hidden_stack
    input,             \* the tree handed to the driver, listed in pre-order;
                       \* <<>> when the driver explores every tree in the bounds
    path,              \* scopes entered and not yet exited, root first
    node,              \* the node entered and not yet checked, or NoNode
    pc,                \* driver position: "start", "check", "walk", "done"
    reports,           \* diagnostics handed to span_lint, in emission order
    test,              \* cx.sess().opts.test
    nextId,            \* next fresh span; spans are handed out in visiting order
    enters,            \* number of enter_lint_attrs calls so far
    exits,             \* number of exit_lint_attrs calls so far
    fault,             \* TRUE once an expect() on the stack has panicked
    run,               \* number of the current traversal run of this visitor
    finished           \* the finished runs: the input and the reports of each

vars == <<doc_hidden_stack, input, path, node, pc, reports, test, nextId,
          enters, exits, fault, run, finished>>

(***************************************************************************)
(* Attributes.  An attribute has a name and one of three shapes: a bare    *)
(* word, `name = "string"`, or `name(list of words)`.                      *)
(***************************************************************************)
DocStr      == [name |-> "doc",    form |-> "NameValueStr", list |-> <<>>]
DocHidden   == [name |-> "doc",    form |-> "List", list |-> <<"hidden">>]
DocInline   == [name |-> "doc",    form |-> "List", list |-> <<"inline">>]
PathStr     == [name |-> "path",   form |-> "NameValueStr", list |-> <<>>]
AllowHidden == [name |-> "allow",  form |-> "List", list |-> <<"hidden">>]

\* The attribute lists a node may carry: none, a doc comment, doc(hidden),
\* both, and a list of attributes that neither document nor hide.
AttrLists ==
    { <<>>, <<DocStr>>, <<DocHidden>>, <<DocHidden, DocStr>>,
      <<PathStr, DocInline, AllowHidden>> }

\* a.is_value_str()
is_value_str(a) == a.form = "NameValueStr"

\* a.check_name(n)
check_name(a, n) == a.name = n

\* attr.meta_item_list(): None for a non-list attribute
meta_item_list(a) == IF a.form = "List" THEN <<"Some", a.list>> ELSE <<"None">>

\* attr::list_contains_name(&l[..], n)
list_contains_name(l, n) == \E i \in 1..Len(l) : l[i] = n

(***************************************************************************)
(* Declaration nodes.  `class` says which check_* callback the driver      *)
(* calls; `node` is the variant of hir::ItemKind, hir::TraitItemKind or    *)
(* hir::ImplItemKind; `macro` is in_macro(span).                           *)
(***************************************************************************)
ItemKinds ==
    { "Const", "Enum", "Fn", "Mod", "Static", "Struct", "Trait", "TraitAlias",
      "Ty", "Union", "Existential", "ExternCrate", "ForeignMod", "GlobalAsm",
      "Impl", "Use" }
TraitItemKinds == { "Const", "Method", "Type" }
ImplItemKinds  == { "Const", "Method", "Type", "Existential" }

Shape(c, k, id, pos, tr) ==
    [class |-> c, node |-> k, ident |-> id, positional |-> pos, of_trait |-> tr]

ItemShapes ==
    { Shape("Item", k, "other", FALSE, FALSE) : k \in ItemKinds }
    \cup { Shape("Item", "Fn", "main", FALSE, FALSE),
           Shape("Item", "Mod", "main", FALSE, FALSE),
           Shape("Item", "Impl", "other", FALSE, TRUE) }
TraitItemShapes == { Shape("TraitItem", k, "other", FALSE, FALSE) : k \in TraitItemKinds }
ImplItemShapes  == { Shape("ImplItem", k, "other", FALSE, FALSE) : k \in ImplItemKinds }
FieldShapes     == { Shape("StructField", "Field", "other", p, FALSE) : p \in BOOLEAN }
VariantShapes   == { Shape("Variant", "Variant", "other", FALSE, FALSE) }
CrateShape      == Shape("Crate", "Crate", "other", FALSE, FALSE)

\* The shapes the tree grammar allows directly below a node.
ChildShapes(n) ==
    CASE n.class = "Crate" -> ItemShapes
      [] n.class = "Item" /\ n.node \in {"Mod", "Fn"} -> ItemShapes
      [] n.class = "Item" /\ n.node \in {"Struct", "Union"} -> FieldShapes
      [] n.class = "Item" /\ n.node = "Enum" -> VariantShapes
      [] n.class = "Item" /\ n.node = "Trait" -> TraitItemShapes
      [] n.class = "Item" /\ n.node = "Impl" -> ImplItemShapes
      [] n.class = "Variant" -> FieldShapes
      [] OTHER -> {}

MkNode(sh, as, m, sp) ==
    [class |-> sh.class, node |-> sh.node, ident |-> sh.ident,
     positional |-> sh.positional, of_trait |-> sh.of_trait,
     attrs |-> as, macro |-> m, span |-> sp]

NoNode == [class |-> "None"]

\* The innermost open scope.
Top == path[Len(path)]

(***************************************************************************)
(* MissingDoc                                                              *)
(***************************************************************************)
\* Mutant: the stack starts without the root entry.
new_empty == <<>>

\* MissingDoc::new
new == <<FALSE>>

\* MissingDoc::doc_hidden: the top of the stack; expect() panics on an empty
\* stack (the value is then irrelevant, the caller never continues).
doc_hidden_panics(stack) == Len(stack) = 0
doc_hidden(stack) == IF Len(stack) = 0 THEN FALSE ELSE stack[Len(stack)]

\* Mutant: the name of the attribute is not checked.
attrs_mark_hidden_any_name(attrs) ==
    \E i \in 1..Len(attrs) :
        LET l == meta_item_list(attrs[i])
        IN  IF l[1] = "None" THEN FALSE ELSE list_contains_name(l[2], "hidden")

\* The closure of enter_lint_attrs: some attribute is `doc(.. hidden ..)`.
attrs_mark_hidden(attrs) ==
    \E i \in 1..Len(attrs) :
        /\ check_name(attrs[i], "doc")
        /\ LET l == meta_item_list(attrs[i])
           IN  IF l[1] = "None" THEN FALSE ELSE list_contains_name(l[2], "hidden")

\* Mutant: the attribute name is misspelt.
has_doc_wrong_name(attrs) ==
    \E i \in 1..Len(attrs) : is_value_str(attrs[i]) /\ attrs[i].name = "docs"

\* has_doc of check_missing_docs_attrs: some attribute is `doc = "..."`.
has_doc(attrs) ==
    \E i \in 1..Len(attrs) : is_value_str(attrs[i]) /\ attrs[i].name = "doc"

\* format!("missing documentation for {}", desc)
message(desc) == "missing documentation for " \o desc

\* in_macro(sp): the span of a node is its identity; the flag is stored with it.
in_macro(n) == n.macro

\* What a check_* callback leaves when doc_hidden() panics in it.
Panicked == << [span |-> 0, msg |-> "empty doc_hidden_stack"] >>

\* Mutant: the macro early return is missing.
check_missing_docs_attrs_no_macro(stack, tst, n, desc, reps) ==
    IF tst THEN reps
    ELSE IF doc_hidden_panics(stack) THEN Panicked
    ELSE IF doc_hidden(stack) THEN reps
    ELSE IF ~has_doc(n.attrs)
         THEN Append(reps, [span |-> n.span, msg |-> message(desc)])
         ELSE reps

\* Mutant: the test-harness early return is missing.
check_missing_docs_attrs_no_test(stack, tst, n, desc, reps) ==
    IF doc_hidden_panics(stack) THEN Panicked
    ELSE IF doc_hidden(stack) THEN reps
    ELSE IF in_macro(n) THEN reps
    ELSE IF ~has_doc(n.attrs)
         THEN Append(reps, [span |-> n.span, msg |-> message(desc)])
         ELSE reps

\* MissingDoc::check_missing_docs_attrs: the report sequence after the call.
check_missing_docs_attrs(stack, tst, n, desc, reps) ==
    IF tst THEN reps
    ELSE IF doc_hidden_panics(stack) THEN Panicked
    ELSE IF doc_hidden(stack) THEN reps
    ELSE IF in_macro(n) THEN reps
    ELSE IF ~has_doc(n.attrs)
         THEN Append(reps, [span |-> n.span, msg |-> message(desc)])
         ELSE reps

\* The match of check_item: the description, or "return" for an early return.
\* def_key.parent == Some(CRATE_DEF_INDEX) holds when the enclosing
\* definition is the crate root.
\* Mutant: the parent is not looked at, any `main` is the entry point.
parent_is_crate_unchecked == TRUE

parent_is_crate == Len(path) = 2

\* Mutant: impl blocks are given a description instead of returning early.
item_desc_impl_applicable(it, atRoot) ==
    CASE it.node = "Const"       -> "a constant"
      [] it.node = "Enum"        -> "an enum"
      [] it.node = "Fn"          -> IF it.ident = "main" /\ atRoot
                                    THEN "return" ELSE "a function"
      [] it.node = "Mod"         -> "a module"
      [] it.node = "Static"      -> "a static"
      [] it.node = "Struct"      -> "a struct"
      [] it.node = "Trait"       -> "a trait"
      [] it.node = "TraitAlias"  -> "a trait alias"
      [] it.node = "Ty"          -> "a type alias"
      [] it.node = "Union"       -> "a union"
      [] it.node = "Existential" -> "an existential type"
      [] it.node = "Impl"        -> "an impl"
      [] OTHER                   -> "return"

\* Mutant: modules are listed with the kinds that return early.
item_desc_mod_skipped(it, atRoot) ==
    CASE it.node = "Const"       -> "a constant"
      [] it.node = "Enum"        -> "an enum"
      [] it.node = "Fn"          -> IF it.ident = "main" /\ atRoot
                                    THEN "return" ELSE "a function"
      [] it.node = "Static"      -> "a static"
      [] it.node = "Struct"      -> "a struct"
      [] it.node = "Trait"       -> "a trait"
      [] it.node = "TraitAlias"  -> "a trait alias"
      [] it.node = "Ty"          -> "a type alias"
      [] it.node = "Union"       -> "a union"
      [] it.node = "Existential" -> "an existential type"
      [] OTHER                   -> "return"

item_desc(it, atRoot) ==
    CASE it.node = "Const"       -> "a constant"
      [] it.node = "Enum"        -> "an enum"
      [] it.node = "Fn"          -> IF it.ident = "main" /\ atRoot
                                    THEN "return" ELSE "a function"
      [] it.node = "Mod"         -> "a module"
      [] it.node = "Static"      -> "a static"
      [] it.node = "Struct"      -> "a struct"
      [] it.node = "Trait"       -> "a trait"
      [] it.node = "TraitAlias"  -> "a trait alias"
      [] it.node = "Ty"          -> "a type alias"
      [] it.node = "Union"       -> "a union"
      [] it.node = "Existential" -> "an existential type"
      [] OTHER                   -> "return"

\* The match of check_trait_item.
trait_item_desc(ti) ==
    CASE ti.node = "Const"  -> "an associated constant"
      [] ti.node = "Method" -> "a trait method"
      [] ti.node = "Type"   -> "an associated type"

\* The match of check_impl_item.
impl_item_desc(ii) ==
    CASE ii.node = "Const"       -> "an associated constant"
      [] ii.node = "Method"      -> "a method"
      [] ii.node = "Type"        -> "an associated type"
      [] ii.node = "Existential" -> "an existential type"

\* cx.tcx.associated_item(def_id).container of check_impl_item: the
\* enclosing definition, a trait or an impl.
container ==
    IF path[Len(path) - 1].class = "Item" /\ path[Len(path) - 1].node = "Trait" THEN "TraitContainer" ELSE "ImplContainer"

\* Mutant: the trait reference of the impl is never found.
impl_trait_ref_never == FALSE

\* cx.tcx.impl_trait_ref(cid).is_some(): the enclosing impl implements a trait.
impl_trait_ref_is_some == path[Len(path) - 1].of_trait

(***************************************************************************)
(* The callbacks of LateLintPass for MissingDoc, as functions of the state *)
(***************************************************************************)
\* Mutant: the pushed entry forgets the enclosing scopes.
enter_push_own_only(stack, attrs) ==
    Append(stack, attrs_mark_hidden(attrs))

\* Mutant: the entry is pushed twice.
enter_push_twice(stack, attrs) ==
    Append(Append(stack, doc_hidden(stack) \/ attrs_mark_hidden(attrs)),
           doc_hidden(stack) \/ attrs_mark_hidden(attrs))

\* Mutant: the entry overwrites the top instead of pushing.
enter_push_replace(stack, attrs) ==
    IF Len(stack) = 0
    THEN <<attrs_mark_hidden(attrs)>>
    ELSE [stack EXCEPT ![Len(stack)] = stack[Len(stack)] \/ attrs_mark_hidden(attrs)]

\* enter_lint_attrs: the stack after the push.
enter_push(stack, attrs) ==
    Append(stack, doc_hidden(stack) \/ attrs_mark_hidden(attrs))

\* Mutant: the expect() of the exit fires on a non-empty stack.
exit_panics_nonempty(stack) == Len(stack) # 0

\* exit_lint_attrs: the stack after the pop; pop() on an empty stack is None
\* and expect() panics.
exit_panics(stack) == Len(stack) = 0

\* Mutant: the exit pops nothing.
exit_pop_keeps(stack) == stack

\* Mutant: the exit removes the entry below the top instead of the top.
exit_pop_sticky(stack) ==
    IF Len(stack) >= 2
    THEN Append(SubSeq(stack, 1, Len(stack) - 2), stack[Len(stack)])
    ELSE <<>>

\* Mutant: the exit resets the stack to the root entry.
exit_pop_reset(stack) == <<FALSE>>

exit_pop(stack) == SubSeq(stack, 1, Len(stack) - 1)

\* Mutant: the crate root is not checked.
crate_reports_skipped(krate) == reports

\* check_crate
crate_reports(krate) ==
    check_missing_docs_attrs(doc_hidden_stack, test, krate, "crate", reports)

\* check_item
item_reports(it) ==
    LET desc == item_desc(it, parent_is_crate)
    IN  IF desc = "return" THEN reports
        ELSE check_missing_docs_attrs(doc_hidden_stack, test, it, desc, reports)

\* check_trait_item
trait_item_reports(ti) ==
    check_missing_docs_attrs(doc_hidden_stack, test, ti, trait_item_desc(ti), reports)

\* check_impl_item
impl_item_reports(ii) ==
    IF container = "TraitContainer" THEN reports
    ELSE IF impl_trait_ref_is_some THEN reports
    ELSE check_missing_docs_attrs(doc_hidden_stack, test, ii, impl_item_desc(ii), reports)

\* Mutant: the negation of is_positional() is dropped.
struct_field_reports_inverted(sf) ==
    IF sf.positional
    THEN check_missing_docs_attrs(doc_hidden_stack, test, sf, "a struct field", reports)
    ELSE reports

\* check_struct_field
struct_field_reports(sf) ==
    IF ~sf.positional
    THEN check_missing_docs_attrs(doc_hidden_stack, test, sf, "a struct field", reports)
    ELSE reports

\* check_variant
variant_reports(v) ==
    check_missing_docs_attrs(doc_hidden_stack, test, v, "a variant", reports)

(***************************************************************************)
(* The state machine: the driver visits a tree node by node.  For each     *)
(* node with lint attributes it calls enter_lint_attrs, then the check_*   *)
(* callback of the node's class, then visits the children in source order, *)
(* then calls exit_lint_attrs.  Without a given input the tree is revealed *)
(* as it is visited.                                                       *)
(***************************************************************************)
\* The attribute model's own predicates: the list holds `#[doc = "..."]`,
\* the list holds `#[doc(hidden)]`.
HasDocComment(as)    == \E i \in 1..Len(as) : as[i] = DocStr
IsHiddenFromDocs(as) == \E i \in 1..Len(as) : as[i] = DocHidden

\* What the driver keeps of an open scope: its shape and span, whether its
\* own attributes mark it hidden, and the stack as it was before its enter.
Scope(n, stack) ==
    [class |-> n.class, node |-> n.node, of_trait |-> n.of_trait, span |-> n.span,
     hidden |-> IsHiddenFromDocs(n.attrs), before |-> stack]

InitWith(in) ==
    /\ doc_hidden_stack = new
    /\ input = in
    /\ path = <<>>
    /\ node = NoNode
    /\ pc = "start"
    /\ reports = <<>>
    /\ test \in BOOLEAN
    /\ nextId = 0
    /\ enters = 0
    /\ exits = 0
    /\ fault = FALSE
    /\ run = 1
    /\ finished = <<>>

\* One node of a given input tree: depth 0 is the crate root.
In(sh, as, m, d) == [shape |-> sh, attrs |-> as, macro |-> m, depth |-> d]

Item(k)  == Shape("Item", k, "other", FALSE, FALSE)
MainFn   == Shape("Item", "Fn", "main", FALSE, FALSE)
Field(p) == Shape("StructField", "Field", "other", p, FALSE)

\* crate { mod m { struct S { x: _ } } } with every choice of attributes.
ModStructField(a) ==
    << In(CrateShape, a[1], FALSE, 0), In(Item("Mod"), a[2], FALSE, 1),
       In(Item("Struct"), a[3], FALSE, 2), In(Field(FALSE), a[4], FALSE, 3) >>

\* crate { fn main; mod { fn main } }, nothing documented.
Mains ==
    << In(CrateShape, <<>>, FALSE, 0), In(MainFn, <<>>, FALSE, 1),
       In(Item("Mod"), <<>>, FALSE, 1), In(MainFn, <<>>, FALSE, 2) >>

\* crate { trait { fn }; impl { fn }; impl Trait { fn }; enum { V(_) };
\* struct (_) }, only the crate documented.
Members ==
    << In(CrateShape, <<DocStr>>, FALSE, 0),
       In(Item("Trait"), <<>>, FALSE, 1),
       In(Shape("TraitItem", "Method", "other", FALSE, FALSE), <<>>, FALSE, 2),
       In(Item("Impl"), <<>>, FALSE, 1),
       In(Shape("ImplItem", "Method", "other", FALSE, FALSE), <<>>, FALSE, 2),
       In(Shape("Item", "Impl", "other", FALSE, TRUE), <<>>, FALSE, 1),
       In(Shape("ImplItem", "Method", "other", FALSE, FALSE), <<>>, FALSE, 2),
       In(Item("Enum"), <<>>, FALSE, 1),
       In(Shape("Variant", "Variant", "other", FALSE, FALSE), <<>>, FALSE, 2),
       In(Field(TRUE), <<>>, FALSE, 3),
       In(Item("Struct"), <<>>, FALSE, 1),
       In(Field(TRUE), <<>>, FALSE, 2) >>

\* crate { #[doc(hidden)] impl { fn }; impl { fn }; use; extern { } }, only
\* the crate documented.
HiddenImpl ==
    << In(CrateShape, <<DocStr>>, FALSE, 0),
       In(Item("Impl"), <<DocHidden>>, FALSE, 1),
       In(Shape("ImplItem", "Method", "other", FALSE, FALSE), <<>>, FALSE, 2),
       In(Item("Impl"), <<>>, FALSE, 1),
       In(Shape("ImplItem", "Method", "other", FALSE, FALSE), <<>>, FALSE, 2),
       In(Item("Use"), <<>>, FALSE, 1),
       In(Item("ForeignMod"), <<>>, FALSE, 1) >>

\* crate { #[doc(hidden)] mod { fn }; fn; mod { #[doc(hidden)] fn; const } },
\* nothing documented.
HiddenSibling ==
    << In(CrateShape, <<>>, FALSE, 0),
       In(Item("Mod"), <<DocHidden>>, FALSE, 1),
       In(Item("Fn"), <<>>, FALSE, 2),
       In(Item("Fn"), <<>>, FALSE, 1),
       In(Item("Mod"), <<>>, FALSE, 1),
       In(Item("Fn"), <<DocHidden>>, FALSE, 2),
       In(Item("Const"), <<>>, FALSE, 2) >>

GivenInputs ==
    { ModStructField(a) : a \in [1..4 -> AttrLists] }
    \cup { Mains, Members, HiddenImpl, HiddenSibling }

\* The driver walks a given tree, or every tree within the bounds.
Init == \E in \in GivenInputs \cup {<<>>} : InitWith(in)

\* The driver may visit a node next: the crate root first, then children of
\* the innermost open scope.
CanVisit(sh, as, m) ==
    IF input = <<>>
    THEN \/ pc = "start" /\ sh = CrateShape
         \/ /\ pc = "walk"
            /\ sh \in ChildShapes(Top)
            /\ nextId <= MaxNodes
    ELSE /\ pc \in {"start", "walk"}
         /\ nextId < Len(input)
         /\ input[nextId + 1] = [shape |-> sh, attrs |-> as, macro |-> m,
                                 depth |-> Len(path)]

\* The driver may leave the innermost open scope: its children are done.
CanLeave ==
    /\ pc = "walk"
    /\ \/ input = <<>>
       \/ nextId = Len(input)
       \/ nextId < Len(input) /\ input[nextId + 1].depth < Len(path)

enter_lint_attrs(sh, as, m) ==
    /\ ~fault
    /\ CanVisit(sh, as, m)
    /\ nextId' = nextId + 1
    /\ enters' = enters + 1
    /\ IF doc_hidden_panics(doc_hidden_stack)
       THEN fault' = TRUE /\ UNCHANGED <<doc_hidden_stack, path, node, pc>>
       ELSE /\ doc_hidden_stack' = enter_push(doc_hidden_stack, as)
            /\ node' = MkNode(sh, as, m, nextId)
            /\ path' = Append(path, Scope(node', doc_hidden_stack))
            /\ pc' = "check"
            /\ UNCHANGED fault
    /\ UNCHANGED <<input, reports, test, exits, run, finished>>

exit_lint_attrs ==
    /\ ~fault
    /\ CanLeave
    /\ exits' = exits + 1
    /\ IF exit_panics(doc_hidden_stack)
       THEN fault' = TRUE /\ UNCHANGED <<doc_hidden_stack, path, pc>>
       ELSE /\ doc_hidden_stack' = exit_pop(doc_hidden_stack)
            /\ path' = SubSeq(path, 1, Len(path) - 1)
            /\ pc' = IF Len(path) = 1 THEN "done" ELSE "walk"
            /\ UNCHANGED fault
    /\ UNCHANGED <<input, node, reports, test, nextId, enters, run, finished>>

\* A check_* callback ran on the node just entered and left reps; a callback
\* that reads the top of an empty stack panics instead.
Checked(reps) ==
    /\ IF reps = Panicked
       THEN fault' = TRUE /\ UNCHANGED <<reports, node, pc>>
       ELSE reports' = reps /\ node' = NoNode /\ pc' = "walk" /\ UNCHANGED fault
    /\ UNCHANGED <<doc_hidden_stack, input, path, test, nextId, enters, exits,
                   run, finished>>

check_crate ==
    /\ ~fault /\ pc = "check" /\ node.class = "Crate"
    /\ Checked(crate_reports(node))

check_item ==
    /\ ~fault /\ pc = "check" /\ node.class = "Item"
    /\ Checked(item_reports(node))

check_trait_item ==
    /\ ~fault /\ pc = "check" /\ node.class = "TraitItem"
    /\ Checked(trait_item_reports(node))

check_impl_item ==
    /\ ~fault /\ pc = "check" /\ node.class = "ImplItem"
    /\ Checked(impl_item_reports(node))

check_struct_field ==
    /\ ~fault /\ pc = "check" /\ node.class = "StructField"
    /\ Checked(struct_field_reports(node))

check_variant ==
    /\ ~fault /\ pc = "check" /\ node.class = "Variant"
    /\ Checked(variant_reports(node))

\* The tree of four undocumented, unmarked nodes.
Undocumented == ModStructField(<< <<>>, <<>>, <<>>, <<>> >>)

\* The trees a further run of the same visitor may be given: the same tree
\* again, or the undocumented tree as a fresh root.
NextInputs == {input, Undocumented}

\* The driver starts another traversal run with the same MissingDoc object:
\* the pass is constructed once and nothing re-initialises its stack.  Runs
\* are repeated on given trees only.
restart(in) ==
    /\ ~fault
    /\ pc = "done"
    /\ input # <<>>
    /\ run < MaxRuns
    /\ in \in NextInputs
    /\ input' = in
    /\ finished' = Append(finished, [input |-> input, reports |-> reports])
    /\ run' = run + 1
    /\ pc' = "start"
    /\ reports' = <<>>
    /\ nextId' = 0
    /\ enters' = 0
    /\ exits' = 0
    /\ UNCHANGED <<doc_hidden_stack, path, node, test, fault>>

AllShapes ==
    ItemShapes \cup TraitItemShapes \cup ImplItemShapes \cup FieldShapes
    \cup VariantShapes \cup {CrateShape}

Next ==
    \/ \E sh \in AllShapes, as \in AttrLists, m \in BOOLEAN : enter_lint_attrs(sh, as, m)
    \/ check_crate
    \/ check_item
    \/ check_trait_item
    \/ check_impl_item
    \/ check_struct_field
    \/ check_variant
    \/ exit_lint_attrs
    \/ \E in \in GivenInputs : restart(in)

Spec == Init /\ [][Next]_vars

\* A defective driver: exit_lint_attrs is called while no scope is open, an
\* exit without a matching enter.
unpaired_exit ==
    /\ ~fault
    /\ path = <<>>
    /\ exits' = exits + 1
    /\ IF exit_panics(doc_hidden_stack)
       THEN fault' = TRUE /\ UNCHANGED doc_hidden_stack
       ELSE doc_hidden_stack' = exit_pop(doc_hidden_stack) /\ UNCHANGED fault
    /\ UNCHANGED <<input, path, node, pc, reports, test, nextId, enters, run, finished>>

NextUnpaired == Next \/ unpaired_exit

\* The visitor under a driver that may call exit without a matching enter.
SpecUnpaired == Init /\ [][NextUnpaired]_vars

\* The host keeps calling: it does not stop in the middle of a traversal.
SpecFair == Init /\ [][Next]_vars /\ WF_vars(Next)

TypeOK ==
    /\ doc_hidden_stack \in Seq(BOOLEAN)
    /\ pc \in {"start", "check", "walk", "done"}
    /\ test \in BOOLEAN
    /\ fault \in BOOLEAN

(***************************************************************************)
(* Properties                                                              *)
(***************************************************************************)
Report(sp, label) == [span |-> sp, msg |-> "missing documentation for " \o label]

\* No open scope, the node itself included, is marked hidden-from-docs.
NoScopeHidden == \A i \in 1..Len(path) : ~path[i].hidden

\* C1. Hidden-scope propagation: while a scope marked hidden-from-docs is
\* open (from its enter to its exit), no report is emitted, neither for the
\* node itself nor for any descendant, whatever the descendant's attributes.
C1_HiddenScopePropagation ==
    [][reports' # reports => NoScopeHidden]_vars

\* A crate whose module m is hidden and whose struct and field are
\* undocumented and carry no mark of their own was walked to the end: only
\* the crate is reported.
C1_Witness ==
    /\ pc = "done" /\ ~test
    /\ input = ModStructField(<< <<>>, <<DocHidden>>, <<>>, <<>> >>)
    /\ reports = << Report(0, "crate") >>

\* C2. Stack balance: a finished run has made as many exit calls as enter
\* calls, and every exit, whatever path the node's check took, leaves the
\* stack exactly as it was before that node's enter.
C2_StackBalance ==
    /\ [](pc = "done" => enters = exits /\ enters > 0)
    /\ [][exits' = exits + 1 => doc_hidden_stack' = Top.before]_vars

\* The member of a trait implementation (an early return of check_impl_item)
\* was entered and exited and the stack is back to the impl's.
C2_Witness ==
    /\ pc = "walk" /\ Len(path) = 2 /\ Top.node = "Impl" /\ Top.of_trait
    /\ enters = 3 /\ exits = 1
    /\ doc_hidden_stack = Append(Top.before, Top.hidden)

\* A check_* callback has just run on `node`.
CheckStep == pc = "check" /\ pc' = "walk"

\* The enclosing definition of the node just entered.
Parent == path[Len(path) - 1]

\* The node is undocumented, not hidden (by itself or by an enclosing
\* scope), not macro-expanded, and test-harness mode is off.
Uncovered(n) ==
    ~test /\ NoScopeHidden /\ ~n.macro /\ ~HasDocComment(n.attrs)

\* The label of the written policy table for the members of traits and impls.
MemberLabel(n) ==
    CASE n.class = "TraitItem" /\ n.node = "Const"  -> "an associated constant"
      [] n.class = "TraitItem" /\ n.node = "Method" -> "a trait method"
      [] n.class = "TraitItem" /\ n.node = "Type"   -> "an associated type"
      [] n.class = "ImplItem" /\ n.node = "Const"       -> "an associated constant"
      [] n.class = "ImplItem" /\ n.node = "Method"      -> "a method"
      [] n.class = "ImplItem" /\ n.node = "Type"        -> "an associated type"
      [] n.class = "ImplItem" /\ n.node = "Existential" -> "an existential type"

\* C3. Entry-point exception: a function named main whose parent is the
\* crate root is never reported; a function named main inside a module is
\* reported as "a function" when it is undocumented, not hidden, not
\* macro-expanded and test-harness mode is off.
C3_EntryPoint ==
    [][CheckStep /\ node.class = "Item" /\ node.node = "Fn" /\ node.ident = "main"
       => /\ Parent.class = "Crate" => reports' = reports
          /\ Parent.class = "Item" /\ Parent.node = "Mod" /\ Uncovered(node)
             => reports' = Append(reports, Report(node.span, "a function"))]_vars

\* crate { fn main; mod { fn main } } without any documentation was walked:
\* the crate, the module and the nested main are reported, the root main not.
C3_Witness ==
    /\ pc = "done" /\ ~test /\ input = Mains
    /\ reports = << Report(0, "crate"), Report(2, "a module"), Report(3, "a function") >>

\* C4. Trait-implementation exception: a member of an impl of a trait is
\* never reported; a member of an inherent impl that is undocumented, not
\* hidden, not macro-expanded, with test-harness mode off, is reported with
\* the label of its kind.
C4_TraitImplException ==
    [][CheckStep /\ node.class = "ImplItem"
       => IF Parent.of_trait
          THEN reports' = reports
          ELSE Uncovered(node)
               => reports' = Append(reports, Report(node.span, MemberLabel(node)))]_vars

\* The tree with an inherent impl and an impl of a trait, each with an
\* undocumented method, was walked: the inherent method (span 4) is
\* reported, the trait's implementation (span 6) is not.
C4_Witness ==
    /\ pc = "done" /\ ~test /\ input = Members
    /\ reports = << Report(1, "a trait"), Report(2, "a trait method"),
                    Report(4, "a method"), Report(7, "an enum"),
                    Report(8, "a variant"), Report(10, "a struct") >>

\* C5. Positional field exception: a positional struct field is never
\* reported; a named field that is undocumented, not hidden, not
\* macro-expanded, with test-harness mode off, is reported as
\* "a struct field".
C5_PositionalField ==
    [][CheckStep /\ node.class = "StructField"
       => IF node.positional
          THEN reports' = reports
          ELSE Uncovered(node)
               => reports' = Append(reports, Report(node.span, "a struct field"))]_vars

\* A documented crate, module and struct with an undocumented named field
\* were walked: the field is the one report.
C5_Witness ==
    /\ pc = "done" /\ ~test
    /\ input = ModStructField(<< <<DocStr>>, <<DocStr>>, <<DocStr>>, <<>> >>)
    /\ reports = << Report(3, "a struct field") >>

\* C6. Test-harness mode: with the flag set nothing is ever reported, while
\* the stack still follows the open scopes and a finished run is balanced.
C6_TestHarness ==
    test => /\ reports = <<>>
            /\ Len(doc_hidden_stack) = Len(path) + 1
            /\ pc = "done" => enters = exits /\ doc_hidden_stack = <<FALSE>>

\* A tree of four undocumented nodes was walked in test-harness mode.
C6_Witness ==
    /\ pc = "done" /\ test
    /\ input = ModStructField(<< <<>>, <<>>, <<>>, <<>> >>)
    /\ reports = <<>> /\ enters = 4 /\ exits = 4

\* Every node of a given input tree carries a doc comment.
AllDocumented(in) == \A i \in 1..Len(in) : HasDocComment(in[i].attrs)

\* C7. A tree in which every node carries a doc comment yields no report,
\* whatever the hidden marks, the macro origin and the test-harness flag:
\* every report is for a node without a doc comment.
C7_DocumentedTreeNoReports ==
    /\ [](input # <<>> /\ AllDocumented(input) => reports = <<>>)
    /\ [][Len(reports') > Len(reports) => ~HasDocComment(node.attrs)]_vars

\* The fully documented crate { mod { struct { field } } } was walked.
C7_Witness ==
    /\ pc = "done" /\ ~test
    /\ input = ModStructField(<< <<DocStr>>, <<DocStr>>, <<DocStr>>, <<DocStr>> >>)
    /\ reports = <<>> /\ exits = 4

\* The written policy table: the label of an applicable kind; root is the
\* label of the program root.
PolicyLabel(n, root) ==
    CASE n.class = "Crate" -> root
      [] n.class = "Item" /\ n.node = "Const"       -> "a constant"
      [] n.class = "Item" /\ n.node = "Static"      -> "a static"
      [] n.class = "Item" /\ n.node = "Enum"        -> "an enum"
      [] n.class = "Item" /\ n.node = "Struct"      -> "a struct"
      [] n.class = "Item" /\ n.node = "Union"       -> "a union"
      [] n.class = "Item" /\ n.node = "Existential" -> "an existential type"
      [] n.class = "Item" /\ n.node = "Fn"          -> "a function"
      [] n.class = "Item" /\ n.node = "Mod"         -> "a module"
      [] n.class = "Item" /\ n.node = "Trait"       -> "a trait"
      [] n.class = "Item" /\ n.node = "TraitAlias"  -> "a trait alias"
      [] n.class = "Item" /\ n.node = "Ty"          -> "a type alias"
      [] n.class \in {"TraitItem", "ImplItem"}      -> MemberLabel(n)
      [] n.class = "StructField"                    -> "a struct field"
      [] n.class = "Variant"                        -> "a variant"

\* The node just entered is of an applicable kind and no kind-specific
\* exception (root-level main, member of a trait impl, positional field)
\* excludes it.
Applicable(n) ==
    CASE n.class = "Crate" -> TRUE
      [] n.class = "Item" ->
            /\ n.node \notin {"ExternCrate", "ForeignMod", "GlobalAsm", "Impl", "Use"}
            /\ ~(n.node = "Fn" /\ n.ident = "main" /\ Parent.class = "Crate")
      [] n.class = "ImplItem" -> ~Parent.of_trait
      [] n.class = "StructField" -> ~n.positional
      [] OTHER -> TRUE

\* The report condition, read off the suppression stack.
MustReport(n) ==
    /\ ~test
    /\ ~doc_hidden_stack[Len(doc_hidden_stack)]
    /\ ~n.macro
    /\ ~HasDocComment(n.attrs)

ReportCondition(root) ==
    CheckStep /\ Applicable(node)
    => reports' = IF MustReport(node)
                  THEN Append(reports, Report(node.span, PolicyLabel(node, root)))
                  ELSE reports

OneReportPerNode ==
    \A i, j \in 1..Len(reports) : i # j => reports[i].span # reports[j].span

\* C8 as written: the label of the program root is "the program".
C8_Original == [][ReportCondition("the program")]_vars

\* C8. Report condition: an applicable node that no exception excludes is
\* reported if and only if test-harness mode is off, the top of the stack is
\* false, the span is not macro-expanded and there is no doc comment; the
\* report carries the node's span and "missing documentation for " followed
\* by the label of the kind, which for the root is "crate"; no node is
\* reported twice.
C8_ReportCondition ==
    /\ [][ReportCondition("crate")]_vars
    /\ []OneReportPerNode

\* The undocumented crate { mod { struct { field } } } was walked: one
\* report per node, in the order of the visit.
C8_Witness ==
    /\ pc = "done" /\ ~test
    /\ input = ModStructField(<< <<>>, <<>>, <<>>, <<>> >>)
    /\ reports = << Report(0, "crate"), Report(1, "a module"),
                    Report(2, "a struct"), Report(3, "a struct field") >>

RootReport(root) ==
    CheckStep /\ node.class = "Crate" /\ Uncovered(node)
    => reports' = Append(reports, Report(node.span, root))

\* C9 as written: the undocumented root is reported as "the program".
C9_Original == [][RootReport("the program")]_vars

\* C9. The crate root is always applicable: a root that is undocumented, not
\* hidden, not macro-expanded, with test-harness mode off, is reported with
\* the label "crate" (message "missing documentation for crate").
C9_RootReport == [][RootReport("crate")]_vars

\* The undocumented root of a tree revealed by the walk has been checked.
C9_Witness ==
    /\ pc = "walk" /\ ~test /\ input = <<>> /\ Len(path) = 1 /\ nextId = 1
    /\ reports = << Report(0, "crate") >>

\* The scenario of C10 below a crate with the attributes c.
ScenarioMSx(c) == ModStructField(<< c, <<>>, <<DocStr>>, <<>> >>)

NotRoot(r) == r.span # 0

\* C10. Scenario and ordering: with test-harness mode off, the tree module m
\* (undocumented) { struct S (documented) { field x (undocumented) } } yields
\* exactly the reports [m as "a module", x as "a struct field"] below a root
\* that is not hidden; the reports are in visiting order, a node's before any
\* descendant's and siblings in source order.
C10_ScenarioAndOrder ==
    /\ \A c \in AttrLists :
          pc = "done" /\ ~test /\ input = ScenarioMSx(c) /\ ~IsHiddenFromDocs(c)
          => SelectSeq(reports, NotRoot)
                = << Report(1, "a module"), Report(3, "a struct field") >>
    /\ \A i, j \in 1..Len(reports) : i < j => reports[i].span < reports[j].span

\* The scenario below a documented root was walked to the end.
C10_Witness ==
    /\ pc = "done" /\ ~test /\ input = ScenarioMSx(<<DocStr>>)
    /\ reports = << Report(1, "a module"), Report(3, "a struct field") >>

\* C11. Idempotence and determinism: a run on the tree of an earlier run of
\* the same visitor, with the same test-harness flag and macro origins,
\* ends with the same reports in the same order.
C11_Idempotent ==
    \A i \in 1..Len(finished) :
        pc = "done" /\ finished[i].input = input => reports = finished[i].reports

\* The scenario tree below an undocumented root was walked twice by the same
\* visitor: both runs report the crate, m and x.
C11_Witness ==
    /\ pc = "done" /\ ~test /\ run = 2 /\ input = ScenarioMSx(<<>>)
    /\ reports = << Report(0, "crate"), Report(1, "a module"),
                    Report(3, "a struct field") >>
    /\ finished = << [input |-> input, reports |-> reports] >>

\* The root of the given tree in is marked hidden-from-docs.
RootHidden(in) == IsHiddenFromDocs(in[1].attrs)

\* C12. Restartability: the stack is exactly [false] at the start of every
\* traversal run, and a run on the fresh undocumented tree reports all four
\* of its nodes whatever tree the visitor walked before.
C12_Restartable ==
    /\ pc = "start" => doc_hidden_stack = <<FALSE>>
    /\ pc = "done" /\ ~test /\ input = Undocumented
       => reports = << Report(0, "crate"), Report(1, "a module"),
                       Report(2, "a struct"), Report(3, "a struct field") >>

\* After a run over a tree whose root is hidden, which reported nothing, the
\* same visitor walked the undocumented tree and reported every node.
C12_Witness ==
    /\ pc = "done" /\ ~test /\ run = 2 /\ input = Undocumented
    /\ Len(finished) = 1 /\ RootHidden(finished[1].input)
    /\ finished[1].reports = <<>>
    /\ Len(reports) = 4

\* C13. exit is a program fault whenever popping would leave the stack
\* empty: an exit on a stack that holds only the root entry aborts and does
\* not leave an empty stack.
C13_ExitFaultsOnLastEntry ==
    [][exits' = exits + 1 /\ Len(doc_hidden_stack) = 1
       => fault' /\ doc_hidden_stack' # <<>>]_vars

\* C14. Under properly nested enter and exit calls the stack is never
\* empty, its bottom entry is false, and it holds one entry more than there
\* are scopes entered and not yet exited; no expect() on it ever panics.
C14_StackShape ==
    /\ doc_hidden_stack # <<>>
    /\ doc_hidden_stack[1] = FALSE
    /\ Len(doc_hidden_stack) = 1 + Len(path)
    /\ ~fault

\* Four nested scopes are open, the innermost just entered below a hidden
\* module: the stack holds five entries.
C14_Witness ==
    /\ pc = "check" /\ Len(path) = 4 /\ enters = 4 /\ exits = 0
    /\ doc_hidden_stack = <<FALSE, FALSE, TRUE, TRUE, TRUE>>

\* An enter_lint_attrs call has pushed for the node now in `node`.
EnterStep == enters' = enters + 1

\* C15. enter pushes exactly one entry, the previous top or the hidden mark
\* of the attributes; the top of the stack is the disjunction of the hidden
\* marks of the open scopes, and every entry above a true entry is true.
C15_PushedEntry ==
    /\ [][EnterStep
          => doc_hidden_stack' =
                Append(doc_hidden_stack,
                       doc_hidden_stack[Len(doc_hidden_stack)]
                       \/ IsHiddenFromDocs(node'.attrs))]_vars
    /\ [](doc_hidden_stack[Len(doc_hidden_stack)] = ~NoScopeHidden)
    /\ [](\A i, j \in 1..Len(doc_hidden_stack) :
             i < j /\ doc_hidden_stack[i] => doc_hidden_stack[j])

\* Below an unmarked root a hidden module and in it an unmarked struct are
\* open: the entries from the module's on are true.
C15_Witness ==
    /\ pc = "walk" /\ Len(path) = 3
    /\ ~path[1].hidden /\ path[2].hidden /\ ~path[3].hidden
    /\ doc_hidden_stack = <<FALSE, FALSE, TRUE, TRUE>>

\* The item kinds for which check_item returns without a description.
NonApplicableKinds == {"ExternCrate", "ForeignMod", "GlobalAsm", "Impl", "Use"}

NonApplicable(n) == n.class = "Item" /\ n.node \in NonApplicableKinds

\* C16. Non-applicable kinds (extern block, import, impl header) are never
\* reported themselves, but enter still pushes for them with their own
\* attributes and their children are still evaluated: an uncovered member of
\* an unmarked inherent impl is reported, no member of a hidden impl is.
C16_NonApplicableKinds ==
    /\ [][CheckStep /\ NonApplicable(node) => reports' = reports]_vars
    /\ [][EnterStep /\ NonApplicable(node')
          => doc_hidden_stack' =
                Append(doc_hidden_stack,
                       doc_hidden_stack[Len(doc_hidden_stack)]
                       \/ IsHiddenFromDocs(node'.attrs))]_vars
    /\ [][CheckStep /\ node.class = "ImplItem" /\ ~Parent.of_trait
          => IF Parent.hidden
             THEN reports' = reports
             ELSE Uncovered(node)
                  => reports' = Append(reports, Report(node.span, MemberLabel(node)))]_vars

\* The tree with a hidden and an unmarked inherent impl, an import and an
\* extern block was walked: the one report is the unmarked impl's method.
C16_Witness ==
    /\ pc = "done" /\ ~test /\ input = HiddenImpl
    /\ reports = << Report(4, "a method") >>
    /\ enters = 7 /\ exits = 7

\* C17. Suppression is scoped to the subtree: a node that is applicable and
\* uncovered (no open scope, itself included, is marked hidden) is reported,
\* whatever hidden nodes were entered and exited before it.
C17_ScopedSuppression ==
    [][CheckStep /\ Applicable(node) /\ Uncovered(node)
       => reports' = Append(reports, Report(node.span, PolicyLabel(node, "crate")))]_vars

\* The tree with a hidden module before a function, and a hidden function
\* before a constant, was walked: the later siblings are reported.
C17_Witness ==
    /\ pc = "done" /\ ~test /\ input = HiddenSibling
    /\ reports = << Report(0, "crate"), Report(3, "a function"),
                    Report(4, "a module"), Report(6, "a constant") >>

ExitStep == exits' = exits + 1

\* C18. Frame: a step that is neither an entry nor an exit (every check_*
\* callback, whether it reports, skips or returns early, and with it every
\* read of the top) leaves the stack unchanged; an entry adds exactly one
\* entry at the top and an exit removes exactly the top one.
C18_Frame ==
    /\ [][~EnterStep /\ ~ExitStep => doc_hidden_stack' = doc_hidden_stack]_vars
    /\ [][CheckStep => doc_hidden_stack' = doc_hidden_stack]_vars
    /\ [][EnterStep => /\ Len(doc_hidden_stack') = Len(doc_hidden_stack) + 1
                       /\ SubSeq(doc_hidden_stack', 1, Len(doc_hidden_stack))
                          = doc_hidden_stack]_vars
    /\ [][ExitStep => /\ Len(doc_hidden_stack) = Len(doc_hidden_stack') + 1
                      /\ SubSeq(doc_hidden_stack, 1, Len(doc_hidden_stack'))
                         = doc_hidden_stack']_vars

\* Three nodes were entered and checked, one of them reported and one left;
\* the stack holds the root entry and the two open scopes.
C18_Witness ==
    /\ pc = "walk" /\ input = <<>> /\ enters = 3 /\ exits = 1
    /\ Len(reports) = 1
    /\ doc_hidden_stack = <<FALSE, FALSE, TRUE>>

\* C19. Termination: every traversal that was started completes; at
\* completion every node was entered once and left once, nothing is open and
\* the stack is [false] again.
C19_Termination ==
    /\ (pc # "done") ~> (pc = "done")
    /\ [](pc = "done"
          => /\ doc_hidden_stack = <<FALSE>>
             /\ path = <<>> /\ ~fault
             /\ enters = nextId /\ exits = nextId
             /\ input # <<>> => nextId = Len(input))

\* The traversal of the tree with trait and impl members has completed.
C19_Witness ==
    /\ pc = "done" /\ input = Members
    /\ enters = Len(Members) /\ exits = Len(Members)
    /\ doc_hidden_stack = <<FALSE>>

====
